---- MODULE Spec2Model ----
(***************************************************************************)
(* Model of src/ZhiCounterTimerController.py: the boxcars session wrapper  *)
(* around the Zurich Instruments data server client and the Sardana        *)
(* counter/timer controller built on it.                                   *)
(*                                                                         *)
(* Numbers: numpy float64 results are modelled as exact rationals          *)
(* [k, n, d] with k one of "num", "nan", "inf", "ninf" (rounding is not    *)
(* modelled).  The standard error is kept squared, because its square root *)
(* is not rational.                                                        *)
(***************************************************************************)
EXTENDS Integers, Sequences, FiniteSets, TLC

VARIABLES
    pc,            \* "new" | "idle" | "polling" (inside daq.poll) | "failed" (constructor raised)
    options,       \* boxcars.options, the device's feature string (sequence of characters)
    apiLevel,      \* what daq.getConnectionAPILevel() reports
    clock,         \* boxcars.clock
    timeOut,       \* boxcars.timeOut
    repRate,       \* the controller's repRate property
    isAcquiring,   \* boxcars.isAcquiring
    acqStartTime,  \* boxcars.acqStartTime
    acqEndTime,    \* boxcars.acqEndTime
    data,          \* boxcars.data, the raw buffer
    ctrlData,      \* ZhiCounterTimerController.data, the cached result tuple
    isAquiring,    \* ZhiCounterTimerController.isAquiring (sic)
    calls,         \* the calls made on the data server session, in order
    warnings,      \* number of warnings emitted by warnings.warn
    daqOpen,       \* the boxcars object has its daq attribute (FALSE after close)
    now,           \* time.time()
    acqs,          \* history: number of startAcq calls so far
    dataBy,        \* history: the startAcq call whose poll wrote data (0: none)
    startBy,       \* history: the startAcq call that wrote acqStartTime (0: none)
    endBy,         \* history: the startAcq call that wrote acqEndTime (0: none)
    ret            \* what the most recent controller operation returned or raised

vars == <<pc, options, apiLevel, clock, timeOut, repRate, isAcquiring,
          acqStartTime, acqEndTime, data, ctrlData, isAquiring, calls,
          warnings, daqOpen, now, acqs, dataBy, startBy, endBy, ret>>

----------------------------------------------------------------------------
(* Bounds of the model *)

\* StartOne(0) calls explored in one run
MaxAcq == 2
\* samples per channel in a poll result of the reduction specification
MaxSamples == 2
\* largest axis number passed to the controller
MaxAxis == 2

----------------------------------------------------------------------------
(* float64 values as exact rationals *)

RECURSIVE GCD(_, _)
GCD(a, b) == IF b = 0 THEN a ELSE GCD(b, a % b)

AbsInt(x) == IF x < 0 THEN -x ELSE x

NaN == [k |-> "nan", n |-> 0, d |-> 1]
PInf == [k |-> "inf", n |-> 0, d |-> 1]
NInf == [k |-> "ninf", n |-> 0, d |-> 1]

\* the number n/d, d # 0, in lowest terms with a positive denominator
Rat(n, d) ==
    LET g == GCD(AbsInt(n), AbsInt(d))
        s == IF d < 0 THEN -1 ELSE 1
    IN [k |-> "num", n |-> (s * n) \div g, d |-> (s * d) \div g]

Num(x) == Rat(x, 1)

isnan(x) == x.k = "nan"

\* IEEE division a / b as numpy performs it (a warning, never an exception)
FDiv(a, b) ==
    CASE a.k = "nan" \/ b.k = "nan" -> NaN
      [] a.k = "num" /\ b.k = "num" ->
            IF b.n # 0 THEN Rat(a.n * b.d, a.d * b.n)
            ELSE IF a.n = 0 THEN NaN
            ELSE IF a.n > 0 THEN PInf ELSE NInf
      [] a.k = "num" -> Num(0)
      [] b.k = "num" ->
            IF (a.k = "inf") = (b.n >= 0) THEN PInf ELSE NInf
      [] OTHER -> NaN

\* a - b for finite or NaN operands
FSub(a, b) ==
    IF a.k = "num" /\ b.k = "num"
    THEN Rat(a.n * b.d - b.n * a.d, a.d * b.d)
    ELSE NaN

FAbs(a) ==
    CASE a.k = "num" -> Rat(AbsInt(a.n), a.d)
      [] a.k = "nan" -> NaN
      [] OTHER -> PInf

----------------------------------------------------------------------------
(* numpy array helpers *)

\* xs[mask]: the elements of xs at the positions where mask is TRUE
RECURSIVE Masked(_, _)
Masked(xs, mask) ==
    IF xs = <<>> THEN <<>>
    ELSE LET rest == Masked(Tail(xs), Tail(mask))
         IN IF Head(mask) THEN <<Head(xs)>> \o rest ELSE rest

RECURSIVE SumInt(_)
SumInt(xs) == IF xs = <<>> THEN 0 ELSE Head(xs) + SumInt(Tail(xs))

\* np.diff of a timestamp array
diff(ts) == [i \in 1..(IF Len(ts) = 0 THEN 0 ELSE Len(ts) - 1) |-> ts[i + 1] - ts[i]]

\* np.mean of an integer array: NaN for the empty array
meanInt(xs) == IF xs = <<>> THEN NaN ELSE Rat(SumInt(xs), Len(xs))

AnyNaN(vs) == \E i \in 1..Len(vs) : isnan(vs[i])

\* the numerators of finite integral samples
Nums(vs) == [i \in 1..Len(vs) |-> vs[i].n]

\* np.mean of a sample array: NaN if empty or if any element is NaN
mean(vs) ==
    IF vs = <<>> \/ AnyNaN(vs) THEN NaN ELSE Rat(SumInt(Nums(vs)), Len(vs))

\* scipy.stats.sem squared (ddof = 1): var / n, NaN for fewer than two samples
semSquared(vs) ==
    IF Len(vs) < 2 \/ AnyNaN(vs) THEN NaN
    ELSE LET n == Len(vs)
             s == SumInt(Nums(vs))
             q == SumInt([i \in 1..n |-> vs[i].n * vs[i].n])
         IN Rat(n * q - s * s, n * n * (n - 1))

----------------------------------------------------------------------------
(* The raw buffer boxcars.data and what daq.poll returns *)

\* boxcars.data before the first startAcq: the attribute does not exist
Unset == [kind |-> "unset", t0 |-> <<>>, v0 |-> <<>>, t1 |-> <<>>, v1 |-> <<>>]
\* boxcars.data = []
EmptyList == [kind |-> "list", t0 |-> <<>>, v0 |-> <<>>, t1 |-> <<>>, v1 |-> <<>>]
\* a poll result without an entry for the device (no data arrived)
NoDevice == [kind |-> "nodev", t0 |-> <<>>, v0 |-> <<>>, t1 |-> <<>>, v1 |-> <<>>]
\* a poll result data[device]['boxcars'][c]['sample'] with timestamp and value arrays
Samples(t0, v0, t1, v1) ==
    [kind |-> "samples", t0 |-> t0, v0 |-> v0, t1 |-> t1, v1 |-> v1]

Timestamps == {1, 2, 3}
Values == {NaN, Num(1), Num(2)}

\* time-ordered timestamp arrays of length n
OrderedTs(n) ==
    {ts \in [1..n -> Timestamps] : \A i \in 1..(n - 1) : ts[i] <= ts[i + 1]}

\* one channel's (timestamp, value) arrays, of equal length
Channels ==
    UNION {{<<ts, vs>> : ts \in OrderedTs(n), vs \in [1..n -> Values]} :
           n \in 0..MaxSamples}

\* the poll results the session model draws from
PollResults ==
    { NoDevice,
      Samples(<<1, 2>>, <<Num(1), Num(2)>>, <<2, 3>>, <<Num(2), Num(2)>>),
      Samples(<<1, 3>>, <<NaN, Num(2)>>, <<1, 2>>, <<Num(1), NaN>>),
      Samples(<<>>, <<>>, <<1>>, <<Num(1)>>) }

----------------------------------------------------------------------------
(* boxcars.readData *)

Max2(a, b) == IF a >= b THEN a ELSE b
Min2(a, b) == IF a <= b THEN a ELSE b

maxStartTime(d) == Max2(d.t0[1], d.t1[1])
minFinishTime(d) == Min2(d.t0[Len(d.t0)], d.t1[Len(d.t1)])

\* mutant: the window bounds taken exclusive
InWindowStrict(t, lo, hi) == t > lo /\ t < hi

\* lines 83-84: the two timestamp comparisons
InWindow(t, lo, hi) == t >= lo /\ t <= hi

\* the boolean mask of one channel
select(ts, vs, lo, hi) ==
    [i \in 1..Len(ts) |-> InWindow(ts[i], lo, hi) /\ ~isnan(vs[i])]

freq(ts, clk) == FDiv(Num(1), FDiv(meanInt(diff(ts)), Num(clk)))

\* the 9-tuple readData returns for non-empty sample arrays
reduce(d, start, end, clk) ==
    LET lo == maxStartTime(d)
        hi == minFinishTime(d)
        select1 == select(d.t0, d.v0, lo, hi)
        select2 == select(d.t1, d.v1, lo, hi)
        x1 == Masked(d.v0, select1)
        x2 == Masked(d.v1, select2)
        mean1 == mean(x1)
        mean2 == mean(x2)
    IN << mean1, mean2, semSquared(x1), semSquared(x2), Num(Len(x1)),
          freq(Masked(d.t0, select1), clk), Num(end - start),
          FDiv(mean1, mean2), FAbs(FSub(mean1, mean2)) >>

Value(t) == [kind |-> "value", exc |-> "", tuple |-> t]
Raise(e) == [kind |-> "error", exc |-> e, tuple |-> <<>>]

\* readData: the tuple, or the exception the subscripts raise
readData(d, start, end, clk) ==
    CASE d.kind = "unset" -> Raise("AttributeError")
      [] d.kind = "list" -> Raise("TypeError")
      [] d.kind = "nodev" -> Raise("KeyError")
      [] OTHER ->
            IF Len(d.t0) = 0 \/ Len(d.t1) = 0 THEN Raise("IndexError")
            ELSE Value(reduce(d, start, end, clk))

----------------------------------------------------------------------------
(* Program constants and inputs *)

\* ctrl_properties defaults
IP == "127.0.0.1"
Port == 8004
Device == "dev2192"
Iface == "1GbE"
Settings == "PumpUnpumpBoxCar"

\* the api_level the controller asks for
ApiLevel == 6

\* pollData's fixed arguments
poll_timeout == 500
poll_flags == 4
poll_return_flat_dict == FALSE

\* acqStartTime and acqEndTime before the first acquisition (None)
NoneTime == -1

\* feature strings the device may report
OptionStrings ==
    { <<"M", "F", " ", "B", "O", "X">>,
      <<"B", "O">>,
      <<"M", "F">>,
      <<>> }

\* API levels the data server may grant
ConnApiLevels == {1, 6}
ClockBases == {2}
TimeOuts == {30, 5}
RepRates == {1500}
IntTimes == {1, 2}
Elapsed == {0, 1}
Axes == 0..MaxAxis

\* mutant: re.match, the pattern only at the start of s
MatchStart(pat, s) ==
    Len(pat) <= Len(s) /\ \A j \in 1..Len(pat) : s[j] = pat[j]

\* re.search(pat, s): pat occurs in s
Search(pat, s) ==
    \E i \in 0..(Len(s) - Len(pat)) :
        \A j \in 1..Len(pat) : s[i + j] = pat[j]

\* mutant: the capability check done with re.match
hasBOXAtStart(opts) == MatchStart(<<"B", "O", "X">>, opts)

\* line 41
hasBOX(opts) == Search(<<"B", "O", "X">>, opts)

\* '%d' of a channel number
Digit(i) == CASE i = 0 -> "0" [] i = 1 -> "1" [] OTHER -> "?"

\* '/%s/boxcars/%d/sample' % (device, c)
samplePath(dev, c) == <<"/", dev, "/boxcars/", Digit(c), "/sample">>

Call(fn, args) == [fn |-> fn, args |-> args]

\* lines 18-39: the session is opened and the device is queried
connectCalls ==
    << Call("ziDAQServer", <<IP, Port, ApiLevel>>),
       Call("connectDevice", <<Device, Iface>>),
       Call("connect", <<>>),
       Call("load_settings", <<Device, Settings>>),
       Call("getByte", <<Device, "features/devtype">>),
       Call("getByte", <<Device, "features/options">>),
       Call("getDouble", <<Device, "clockbase">>) >>

\* mutant: the first subscription copied without changing the channel
subscribeCallsSameChannel ==
    << Call("sync", <<>>),
       Call("subscribe", <<samplePath(Device, 0)>>),
       Call("subscribe", <<samplePath(Device, 0)>>) >>

\* lines 48-51
subscribeCalls ==
    << Call("sync", <<>>),
       Call("subscribe", <<samplePath(Device, 0)>>),
       Call("subscribe", <<samplePath(Device, 1)>>) >>

\* line 45 evaluates str * str before warnings.warn is entered: a TypeError
apiWarning(lvl) ==
    IF lvl # 6 THEN [raises |-> TRUE, warned |-> 0]
    ELSE [raises |-> FALSE, warned |-> 0]

\* the calls boxcars.__init__ makes and how it ends
boxcarsInit(opts, lvl) ==
    IF ~hasBOX(opts)
    THEN [calls |-> connectCalls, exc |-> "Exception", warned |-> 0]
    ELSE LET w == apiWarning(lvl)
             c == connectCalls \o <<Call("getConnectionAPILevel", <<>>)>>
         IN IF w.raises
            THEN [calls |-> c, exc |-> "TypeError", warned |-> w.warned]
            ELSE [calls |-> c \o subscribeCalls, exc |-> "", warned |-> w.warned]

\* what an operation returned: a value, a state, nothing, or an exception
Ret(op, axis, arg, kind, exc, val, state) ==
    [op |-> op, axis |-> axis, arg |-> arg, kind |-> kind, exc |-> exc,
     val |-> val, state |-> state]

Returned(op, axis) == Ret(op, axis, 0, "none", "", Num(0), "")

----------------------------------------------------------------------------
(* State after loading the module, before the controller is constructed *)

Init ==
    /\ pc = "new"
    /\ options = <<>>
    /\ apiLevel = 0
    /\ clock = 0
    /\ timeOut = 0
    /\ repRate = 0
    /\ isAcquiring = FALSE
    /\ acqStartTime = NoneTime
    /\ acqEndTime = NoneTime
    /\ data = Unset
    /\ ctrlData = <<>>
    /\ isAquiring = FALSE
    /\ calls = <<>>
    /\ warnings = 0
    /\ daqOpen = FALSE
    /\ now = 0
    /\ acqs = 0
    /\ dataBy = 0
    /\ startBy = 0
    /\ endBy = 0
    /\ ret = Returned("load", 0)

\* ZhiCounterTimerController.__init__ with boxcars.__init__
Construct(opts, lvl, clk, tmo, rate) ==
    /\ pc = "new"
    /\ LET r == boxcarsInit(opts, lvl)
       IN /\ calls' = r.calls
          /\ warnings' = warnings + r.warned
          /\ pc' = IF r.exc = "" THEN "idle" ELSE "failed"
          /\ daqOpen' = (r.exc = "")
          /\ ret' = IF r.exc = "" THEN Returned("__init__", 0)
                    ELSE Ret("__init__", 0, 0, "error", r.exc, Num(0), "")
    /\ options' = opts
    /\ apiLevel' = lvl
    /\ clock' = clk
    /\ timeOut' = tmo
    /\ repRate' = rate
    /\ isAcquiring' = FALSE
    /\ acqStartTime' = NoneTime
    /\ acqEndTime' = NoneTime
    /\ ctrlData' = <<>>
    /\ isAquiring' = FALSE
    /\ UNCHANGED <<data, now, acqs, dataBy, startBy, endBy>>

----------------------------------------------------------------------------
(* boxcars.startAcq and boxcars.pollData, entered by StartOne on axis 0 *)

\* line 54
startAcqFlag == TRUE

\* mutant: the buffer is not cleared
startAcqDataKept(old) == old

\* line 56: the buffer is replaced by an empty list
startAcqData(old) == EmptyList

\* mutant: the timeout taken from the configured timeOut property
pollCallConfigured(intTime) ==
    Call("poll", <<intTime, timeOut * 1000, poll_flags, poll_return_flat_dict>>)

\* line 68: the poll call with its four arguments
pollCall(intTime) ==
    Call("poll", <<intTime, poll_timeout, poll_flags, poll_return_flat_dict>>)

\* lines 154-155, 54-56, 62-68: up to and into the blocking daq.poll
StartOneBegin(t) ==
    /\ pc = "idle"
    /\ daqOpen
    /\ acqs < MaxAcq
    /\ isAcquiring' = startAcqFlag
    /\ acqStartTime' = now
    /\ data' = startAcqData(data)
    /\ calls' = calls \o <<Call("flush", <<>>), pollCall(t)>>
    /\ pc' = "polling"
    /\ acqs' = acqs + 1
    /\ startBy' = acqs + 1
    /\ dataBy' = 0
    /\ ret' = Ret("StartOne", 0, t, "pending", "", Num(0), "")
    /\ UNCHANGED <<options, apiLevel, clock, timeOut, repRate, acqEndTime,
                   ctrlData, isAquiring, warnings, daqOpen, now, endBy>>

\* the same, with daq.flush raising: the exception leaves StartOne
StartOneFlushRaise(t) ==
    /\ pc = "idle"
    /\ daqOpen
    /\ acqs < MaxAcq
    /\ isAcquiring' = startAcqFlag
    /\ acqStartTime' = now
    /\ data' = startAcqData(data)
    /\ calls' = calls \o <<Call("flush", <<>>)>>
    /\ acqs' = acqs + 1
    /\ startBy' = acqs + 1
    /\ dataBy' = 0
    /\ ret' = Ret("StartOne", 0, t, "error", "RuntimeError", Num(0), "")
    /\ UNCHANGED <<pc, options, apiLevel, clock, timeOut, repRate, acqEndTime,
                   ctrlData, isAquiring, warnings, daqOpen, now, endBy>>

\* the same after close: self.daq.flush() at line 67 raises AttributeError
\* before any call reaches the session
StartOneClosed(t) ==
    /\ pc = "idle"
    /\ ~daqOpen
    /\ acqs < MaxAcq
    /\ isAcquiring' = startAcqFlag
    /\ acqStartTime' = now
    /\ data' = startAcqData(data)
    /\ acqs' = acqs + 1
    /\ startBy' = acqs + 1
    /\ dataBy' = 0
    /\ ret' = Ret("StartOne", 0, t, "error", "AttributeError", Num(0), "")
    /\ UNCHANGED <<pc, options, apiLevel, clock, timeOut, repRate, acqEndTime,
                   ctrlData, isAquiring, calls, warnings, daqOpen, now, endBy>>

\* boxcars.close: unsubscribe from every path and delete the session; a
\* second close finds no daq attribute and raises AttributeError
close ==
    /\ pc = "idle"
    /\ IF daqOpen
       THEN /\ calls' = calls \o <<Call("unsubscribe", <<"*">>)>>
            /\ daqOpen' = FALSE
            /\ ret' = Returned("close", 0)
       ELSE /\ UNCHANGED <<calls, daqOpen>>
            /\ ret' = Ret("close", 0, 0, "error", "AttributeError", Num(0), "")
    /\ UNCHANGED <<pc, options, apiLevel, clock, timeOut, repRate, isAcquiring,
                   acqStartTime, acqEndTime, data, ctrlData, isAquiring,
                   warnings, now, acqs, dataBy, startBy, endBy>>

\* mutant: the flag reset in a finally clause
afterRaiseReset(prev) == FALSE

\* line 69 is skipped when line 68 raises: isAcquiring keeps its value
afterRaise(prev) == prev

\* lines 68-70: daq.poll returns p after dt seconds
PollReturn(p, dt) ==
    /\ pc = "polling"
    /\ data' = p
    /\ isAcquiring' = FALSE
    /\ now' = now + dt
    /\ acqEndTime' = now'
    /\ dataBy' = acqs
    /\ endBy' = acqs
    /\ pc' = "idle"
    /\ ret' = Ret("StartOne", 0, ret.arg, "none", "", Num(0), "")
    /\ UNCHANGED <<options, apiLevel, clock, timeOut, repRate, acqStartTime,
                   ctrlData, isAquiring, calls, warnings, daqOpen, acqs, startBy>>

\* line 68: daq.poll raises after dt seconds; nothing is assigned
PollRaise(dt) ==
    /\ pc = "polling"
    /\ now' = now + dt
    /\ pc' = "idle"
    /\ isAcquiring' = afterRaise(isAcquiring)
    /\ ret' = Ret("StartOne", 0, ret.arg, "error", "RuntimeError", Num(0), "")
    /\ UNCHANGED <<options, apiLevel, clock, timeOut, repRate,
                   acqStartTime, acqEndTime, data, ctrlData, isAquiring, calls,
                   warnings, daqOpen, acqs, dataBy, startBy, endBy>>

----------------------------------------------------------------------------
(* The other controller operations *)

\* mutant: every axis refreshes the cached tuple
refreshesAlways(axis) == TRUE

\* line 139
refreshes(axis) == axis = 0

\* mutant: the state does not look at the flag
stateOfOn(acquiring) == "On"

\* lines 147-150
stateOf(acquiring) == IF acquiring THEN "Moving" ELSE "On"

\* mutant: StopOne clears the flag
stopOneClears(prev) == FALSE

\* lines 163-165: StopOne leaves boxcars.isAcquiring as it is
stopOneAcquiring(prev) == prev

\* ReadOne(axis): refresh the cached tuple on axis 0, then subscript it
ReadOne(axis) ==
    /\ pc = "idle"
    /\ LET r == IF refreshes(axis)
                THEN readData(data, acqStartTime, acqEndTime, clock)
                ELSE Value(ctrlData)
           cache == IF r.kind = "value" THEN r.tuple ELSE ctrlData
       IN /\ ctrlData' = cache
          /\ ret' = CASE r.kind = "error" ->
                           Ret("ReadOne", axis, 0, "error", r.exc, Num(0), "")
                      [] r.kind = "value" /\ axis + 1 > Len(cache) ->
                           Ret("ReadOne", axis, 0, "error", "IndexError", Num(0), "")
                      [] OTHER ->
                           Ret("ReadOne", axis, 0, "value", "", cache[axis + 1], "")
    /\ UNCHANGED <<pc, options, apiLevel, clock, timeOut, repRate, isAcquiring,
                   acqStartTime, acqEndTime, data, isAquiring, calls, warnings, daqOpen,
                   now, acqs, dataBy, startBy, endBy>>

StateOne(axis) ==
    /\ pc = "idle"
    /\ ret' = Ret("StateOne", axis, 0, "state", "", Num(0), stateOf(isAcquiring))
    /\ UNCHANGED <<pc, options, apiLevel, clock, timeOut, repRate, isAcquiring,
                   acqStartTime, acqEndTime, data, ctrlData, isAquiring, calls,
                   warnings, daqOpen, now, acqs, dataBy, startBy, endBy>>

\* StartOne(axis, t) on an axis other than 0: the body is skipped
StartOneOther(axis, t) ==
    /\ pc = "idle"
    /\ axis # 0
    /\ ret' = Ret("StartOne", axis, t, "none", "", Num(0), "")
    /\ UNCHANGED <<pc, options, apiLevel, clock, timeOut, repRate, isAcquiring,
                   acqStartTime, acqEndTime, data, ctrlData, isAquiring, calls,
                   warnings, daqOpen, now, acqs, dataBy, startBy, endBy>>

StartAll ==
    /\ pc = "idle"
    /\ ret' = Returned("StartAll", 0)
    /\ UNCHANGED <<pc, options, apiLevel, clock, timeOut, repRate, isAcquiring,
                   acqStartTime, acqEndTime, data, ctrlData, isAquiring, calls,
                   warnings, daqOpen, now, acqs, dataBy, startBy, endBy>>

LoadOne(axis, value) ==
    /\ pc = "idle"
    /\ ret' = Ret("LoadOne", axis, value, "none", "", Num(0), "")
    /\ UNCHANGED <<pc, options, apiLevel, clock, timeOut, repRate, isAcquiring,
                   acqStartTime, acqEndTime, data, ctrlData, isAquiring, calls,
                   warnings, daqOpen, now, acqs, dataBy, startBy, endBy>>

StopOne(axis) ==
    /\ pc = "idle"
    /\ isAcquiring' = stopOneAcquiring(isAcquiring)
    /\ ret' = Returned("StopOne", axis)
    /\ UNCHANGED <<pc, options, apiLevel, clock, timeOut, repRate,
                   acqStartTime, acqEndTime, data, ctrlData, isAquiring, calls,
                   warnings, daqOpen, now, acqs, dataBy, startBy, endBy>>

AddDevice(axis) ==
    /\ pc = "idle"
    /\ ret' = Returned("AddDevice", axis)
    /\ UNCHANGED <<pc, options, apiLevel, clock, timeOut, repRate, isAcquiring,
                   acqStartTime, acqEndTime, data, ctrlData, isAquiring, calls,
                   warnings, daqOpen, now, acqs, dataBy, startBy, endBy>>

DeleteDevice(axis) ==
    /\ pc = "idle"
    /\ ret' = Returned("DeleteDevice", axis)
    /\ UNCHANGED <<pc, options, apiLevel, clock, timeOut, repRate, isAcquiring,
                   acqStartTime, acqEndTime, data, ctrlData, isAquiring, calls,
                   warnings, daqOpen, now, acqs, dataBy, startBy, endBy>>

----------------------------------------------------------------------------
(* The controller session *)

Next ==
    \/ \E opts \in OptionStrings, lvl \in ConnApiLevels, clk \in ClockBases,
          tmo \in TimeOuts, rate \in RepRates :
          Construct(opts, lvl, clk, tmo, rate)
    \/ \E t \in IntTimes : StartOneBegin(t)
    \/ \E t \in IntTimes : StartOneFlushRaise(t)
    \/ \E t \in IntTimes : StartOneClosed(t)
    \/ close
    \/ \E p \in PollResults, dt \in Elapsed : PollReturn(p, dt)
    \/ \E dt \in Elapsed : PollRaise(dt)
    \/ \E axis \in Axes : ReadOne(axis)
    \/ \E axis \in Axes : StateOne(axis)
    \/ \E axis \in Axes, t \in IntTimes : StartOneOther(axis, t)
    \/ StartAll
    \/ \E axis \in Axes, value \in IntTimes : LoadOne(axis, value)
    \/ \E axis \in Axes : StopOne(axis)
    \/ \E axis \in Axes : AddDevice(axis)
    \/ \E axis \in Axes : DeleteDevice(axis)

Spec == Init /\ [][Next]_vars

----------------------------------------------------------------------------
(* The reduction alone: readData applied to every bounded poll result *)

\* the state inside the poll of the first StartOne(0, 1)
InitReduce ==
    /\ pc = "polling"
    /\ options = <<"M", "F", " ", "B", "O", "X">>
    /\ apiLevel = ApiLevel
    /\ clock \in ClockBases
    /\ timeOut = 30
    /\ repRate = 1500
    /\ isAcquiring = startAcqFlag
    /\ acqStartTime = 0
    /\ acqEndTime = NoneTime
    /\ now = 0
    /\ data = EmptyList
    /\ ctrlData = <<>>
    /\ isAquiring = FALSE
    /\ calls = boxcarsInit(options, apiLevel).calls
                 \o <<Call("flush", <<>>), pollCall(1)>>
    /\ warnings = 0
    /\ daqOpen = TRUE
    /\ acqs = 1
    /\ dataBy = 0
    /\ startBy = 1
    /\ endBy = 0
    /\ ret = Ret("StartOne", 0, 1, "pending", "", Num(0), "")

\* the poll returns any bounded pair of sample arrays, then axis 0 is read
NextReduce ==
    \/ /\ pc = "polling"
       /\ \E a \in Channels, b \in Channels :
             PollReturn(Samples(a[1], a[2], b[1], b[2]), 1)
    \/ ReadOne(0)

SpecReduce == InitReduce /\ [][NextReduce]_vars

----------------------------------------------------------------------------
(* Properties *)

PollIdx == {i \in 1..Len(calls) : calls[i].fn = "poll"}
SubscribeIdx == {i \in 1..Len(calls) : calls[i].fn = "subscribe"}

ReadZeroReturned ==
    ret.op = "ReadOne" /\ ret.axis = 0 /\ ret.kind = "value"

\* the latest startAcq has not run to its end
LastStartFailed == pc = "idle" /\ acqs > endBy

\* C1: a poll is issued only on a session that was opened and connected and
\* then subscribed to exactly the streams boxcars/0/sample and
\* boxcars/1/sample, and not closed since; ReadOne(0) returns a value, the first element of the
\* reduced tuple, only after a poll has completed, and raises before that.
C1_CallOrder ==
    /\ \A i \in PollIdx :
          /\ \E c \in 1..(i - 1) : calls[c].fn = "ziDAQServer"
          /\ \E c \in 1..(i - 1) :
                /\ calls[c].fn = "connect"
                /\ \A j \in SubscribeIdx : c < j /\ j < i
          /\ \A u \in 1..(i - 1) : calls[u].fn # "unsubscribe"
          /\ Cardinality(SubscribeIdx) = 2
          /\ {calls[j].args[1] : j \in SubscribeIdx} =
                { <<"/", "dev2192", "/boxcars/", "0", "/sample">>,
                  <<"/", "dev2192", "/boxcars/", "1", "/sample">> }
    /\ ReadZeroReturned =>
          /\ endBy >= 1
          /\ PollIdx # {}
          /\ data.kind = "samples"
          /\ ret.val = ctrlData[1]
    /\ (ret.op = "ReadOne" /\ ret.axis = 0 /\ endBy = 0) => ret.kind = "error"

C1_Witness == ReadZeroReturned /\ Cardinality(PollIdx) = 1

\* C2: without BOX in the feature string the constructor ends with the
\* capability exception, nothing is subscribed and nothing is ever polled;
\* with BOX in it the capability exception is not raised.
C2_Capability ==
    pc # "new" =>
        IF \E i \in 1..Len(options) :
               i + 2 <= Len(options) /\ options[i] = "B"
               /\ options[i + 1] = "O" /\ options[i + 2] = "X"
        THEN ~(ret.op = "__init__" /\ ret.exc = "Exception")
        ELSE /\ pc = "failed"
             /\ ret.op = "__init__" /\ ret.kind = "error" /\ ret.exc = "Exception"
             /\ SubscribeIdx = {}
             /\ PollIdx = {}

C2_Witness == pc = "failed" /\ ret.exc = "Exception" /\ options = <<"M", "F">>

\* C3 as stated: with BOX present and an API level other than 6 the
\* constructor warns once, completes, and subscribes both streams.
C3_WarnOnly ==
    (pc # "new" /\ hasBOX(options) /\ apiLevel # 6) =>
        /\ warnings = 1
        /\ pc # "failed"
        /\ Cardinality(SubscribeIdx) = 2

\* C4: isAcquiring is true while the poll is in progress and false after
\* every StartOne(0) that ran to its end; StateOne returns Moving exactly
\* when isAcquiring is true and On otherwise, whatever the axis.
C4_AcquiringFlag ==
    /\ pc = "polling" => isAcquiring
    /\ (pc = "idle" /\ acqs = endBy) => ~isAcquiring
    /\ ret.op = "StateOne" =>
          /\ ret.state \in {"Moving", "On"}
          /\ ret.state = "Moving" <=> isAcquiring
          /\ (acqs = endBy) => ret.state = "On"

C4_Witness ==
    ret.op = "StateOne" /\ ret.axis = 1 /\ ret.state = "On" /\ endBy = 2

RECURSIVE SumOver(_, _)
SumOver(vs, S) ==
    IF S = {} THEN 0
    ELSE LET i == CHOOSE i \in S : TRUE IN vs[i].n + SumOver(vs, S \ {i})

MeanOver(vs, S) ==
    IF S = {} THEN NaN ELSE Rat(SumOver(vs, S), Cardinality(S))

WindowLo == IF data.t0[1] >= data.t1[1] THEN data.t0[1] ELSE data.t1[1]
WindowHi ==
    IF data.t0[Len(data.t0)] <= data.t1[Len(data.t1)]
    THEN data.t0[Len(data.t0)] ELSE data.t1[Len(data.t1)]

Selected(ts, vs) ==
    {i \in 1..Len(ts) : WindowLo <= ts[i] /\ ts[i] <= WindowHi /\ vs[i].k # "nan"}

\* C5: the means are taken over exactly the samples inside the common
\* window [max of first timestamps, min of last timestamps] that are not
\* NaN, and the count is the number of such channel-0 samples.
C5_CommonWindow ==
    ctrlData # <<>> =>
        /\ Len(data.t0) > 0 /\ Len(data.t1) > 0
        /\ ctrlData[1] = MeanOver(data.v0, Selected(data.t0, data.v0))
        /\ ctrlData[2] = MeanOver(data.v1, Selected(data.t1, data.v1))
        /\ ctrlData[5] = Num(Cardinality(Selected(data.t0, data.v0)))

\* a channel-0 sample before the window, one NaN inside it, one selected
C5_Witness ==
    /\ ctrlData # <<>>
    /\ \E i \in 1..Len(data.t0) : data.t0[i] < WindowLo
    /\ \E i \in 1..Len(data.t1) : data.t1[i] > WindowHi
    /\ \E i \in 1..Len(data.t1) :
          data.t1[i] <= WindowHi /\ data.v1[i].k = "nan"
    /\ Selected(data.t0, data.v0) # {}

\* C6: every poll has timeout 500, flags 4, a flush right before it, and
\* the length given to StartOne; none of this depends on timeOut or repRate.
C6_FixedTimeout ==
    /\ \A i \in PollIdx :
          /\ calls[i].args[2] = 500
          /\ calls[i].args[3] = 4
          /\ calls[i].args[4] = FALSE
          /\ i > 1 /\ calls[i - 1].fn = "flush"
    /\ pc = "polling" =>
          /\ calls[Len(calls)].fn = "poll"
          /\ calls[Len(calls)].args[1] = ret.arg

C6_Witness ==
    /\ timeOut = 5
    /\ \E i \in PollIdx, j \in PollIdx :
          i < j /\ calls[i].args[1] # calls[j].args[1]

\* C7: when the poll raises, isAcquiring stays true and acqEndTime keeps
\* its value; from then until a StartOne(0) runs to its end the buffer is
\* the empty list, StateOne returns Moving and ReadOne(0) raises.
C7_NoRecovery ==
    /\ [](LastStartFailed =>
            /\ isAcquiring
            /\ data = EmptyList
            /\ ret.op = "StateOne" => ret.state = "Moving"
            /\ (ret.op = "ReadOne" /\ ret.axis = 0) => ret.kind = "error")
    /\ [][(pc = "polling" /\ pc' = "idle" /\ ret'.kind = "error") =>
            /\ isAcquiring' /\ acqEndTime' = acqEndTime
            /\ ret'.exc = "RuntimeError"]_vars
    /\ [][(LastStartFailed /\ ~LastStartFailed') =>
            (pc' = "polling" /\ ret'.op = "StartOne" /\ ret'.axis = 0)]_vars

C7_Witness ==
    /\ LastStartFailed /\ endBy = 1
    /\ ret.op = "StateOne" /\ ret.state = "Moving"

\* C8: ReadOne(k), k # 0, leaves the cached tuple alone and returns its
\* element k, or raises IndexError when the tuple has none; only a
\* ReadOne(0) that returns changes the cached tuple.
C8_OnlyAxisZero ==
    /\ [][(ret'.op = "ReadOne" /\ ret'.axis # 0) =>
            /\ ctrlData' = ctrlData
            /\ IF ret'.axis + 1 <= Len(ctrlData)
               THEN ret'.kind = "value" /\ ret'.val = ctrlData[ret'.axis + 1]
               ELSE ret'.kind = "error" /\ ret'.exc = "IndexError"]_vars
    /\ [][ctrlData' # ctrlData =>
            (ret'.op = "ReadOne" /\ ret'.axis = 0 /\ ret'.kind = "value")]_vars

\* ReadOne(1) returns the mean of an earlier acquisition than the buffer's
C8_Witness ==
    /\ ret.op = "ReadOne" /\ ret.axis = 1 /\ ret.kind = "value"
    /\ acqs = 2 /\ dataBy = 2 /\ Len(data.t0) > 0 /\ Len(data.t1) > 0
    /\ ret.val # readData(data, acqStartTime, acqEndTime, clock).tuple[2]

\* C9: StartOne on another axis, StartAll, LoadOne, StopOne, AddDevice and
\* DeleteDevice make no call on the session and change none of the flag,
\* the two times, the buffer and the cached tuple.
C9_NoAcquisition ==
    [][(\/ ret'.op \in {"StartAll", "LoadOne", "StopOne", "AddDevice", "DeleteDevice"}
        \/ (ret'.op = "StartOne" /\ ret'.axis # 0)) =>
          UNCHANGED <<isAcquiring, acqStartTime, acqEndTime, data, ctrlData,
                      calls, pc, daqOpen>>]_vars

C9_Witness == ret.op = "StopOne" /\ isAcquiring /\ pc = "idle"

\* C10: when ReadOne(0) returns, the buffer, acqStartTime and acqEndTime
\* were written by the latest startAcq, which ran to its end; the buffer
\* is one poll result, and the duration returned is end - start >= 0.
C10_LatestAcquisition ==
    ReadZeroReturned =>
        /\ dataBy = acqs /\ startBy = acqs /\ endBy = acqs
        /\ data \in PollResults
        /\ ctrlData[7] = Num(acqEndTime - acqStartTime)
        /\ acqEndTime - acqStartTime >= 0

\* returned after a failed StartOne(0) followed by a successful one
C10_Witness ==
    /\ ReadZeroReturned /\ acqs = 2
    /\ Cardinality(PollIdx) = 1

====
